---- MODULE Spec2Model ----
(***************************************************************************)
(* Verification model of the PFAS reporting pipeline                       *)
(* (pfas_reporting.py, pfas_frontend.py): row parsing, dictionary          *)
(* matching and report aggregation.                                        *)
(*                                                                         *)
(* A Python str is a sequence of one-character strings, so that strip(),   *)
(* lower() and the substring test `in` are computed and not assumed.       *)
(* Python's None is the one-element sequence <<"None">>, which no str      *)
(* equals because its element is not a single character.                   *)
(***************************************************************************)
EXTENDS Integers, Sequences, FiniteSets, TLC

\* pc           position in the run: start, loaded, dict, matched, done, raised
\* entry        the entry point in use: cli (main), web (index), call (direct)
\* rows         the mappings csv.DictReader yields, in input order
\* dictInput    whether a dictionary was supplied, and its raw lines
\* dictionary   PFASDictionary.entries
\* declarations the list of SupplierDeclaration, mutated in place by the Matcher
\* created      history: the declarations as they were created
\* runs         number of Matcher runs so far
\* report       what ReportGenerator.generate returned
VARIABLES pc, entry, rows, dictInput, dictionary, declarations, created, runs, report

vars == <<pc, entry, rows, dictInput, dictionary, declarations, created, runs, report>>

-----------------------------------------------------------------------------
(* Bounds *)

MaxRows == 2

MaxRuns == 2

-----------------------------------------------------------------------------
(* Python values *)

None == <<"None">>

Range(s) == {s[i] : i \in 1..Len(s)}

Upper == <<"A", "B", "C", "D", "E", "F", "G", "H", "I", "J", "K", "L", "M", "N", "O", "P", "Q", "R", "S", "T", "U", "V", "W", "X", "Y", "Z">>

Lowercase == <<"a", "b", "c", "d", "e", "f", "g", "h", "i", "j", "k", "l", "m", "n", "o", "p", "q", "r", "s", "t", "u", "v", "w", "x", "y", "z">>

Whitespace == {" ", "\t", "\n", "\r"}

\* str.lower() on one character
lower_char(c) ==
    IF \E i \in 1..Len(Upper) : Upper[i] = c
    THEN Lowercase[CHOOSE i \in 1..Len(Upper) : Upper[i] = c]
    ELSE c

\* str.lower()
lower(s) == IF s = <<>> THEN <<>> ELSE [i \in 1..Len(s) |-> lower_char(s[i])]

\* str.strip(): drops leading and trailing whitespace
strip(s) ==
    LET keep == {i \in 1..Len(s) : s[i] \notin Whitespace}
    IN  IF keep = {} THEN <<>>
        ELSE SubSeq(s, CHOOSE i \in keep : \A j \in keep : i <= j,
                       CHOOSE i \in keep : \A j \in keep : i >= j)

\* Python's `name in s` for two strs: literal substring containment
str_in(name, s) ==
    \E k \in 0..(Len(s) - Len(name)) : SubSeq(s, k + 1, k + Len(name)) = name

\* truthiness of a str, as in `if d.pfas_presence` and `x or None`
truthy(s) == s # <<>>

-----------------------------------------------------------------------------
(* String literals of the source *)

sUnknown == <<"U", "n", "k", "n", "o", "w", "n">>

s_unknown == <<"u", "n", "k", "n", "o", "w", "n">>

sYes == <<"Y", "e", "s">>

sTruthySet == {<<"t", "r", "u", "e">>, <<"y", "e", "s">>, <<"1">>}

colCompany == "Company Name"

colContact == "Contact Name"

colEmail == "Email Address"

colArticle == "Article Description"

colPresence == "PFAS Presence"

colKra == "Known or Reasonably Ascertainable Basis"

colEvidence == "Evidence"

colCbi == "CBI Claim"

Columns == {colCompany, colContact, colEmail, colArticle, colPresence, colKra, colEvidence, colCbi}

-----------------------------------------------------------------------------
(* Declaration Parser: SupplierDeclaration.from_row *)

\* dict.get(key, default)
get(row, key, default) == IF key \in DOMAIN row THEN row[key] ELSE default

\* from_row calls .strip() on what row.get returns; on None that raises
\* AttributeError.  None is in a row when the data row is shorter than the
\* header (csv.DictReader fills the missing cells with restval = None).
from_row_raises(row) == \E key \in Columns : get(row, key, <<>>) = None

from_row(row) ==
    [company_name        |-> strip(get(row, colCompany, <<>>)),
     contact_name        |-> strip(get(row, colContact, <<>>)),
     email               |-> strip(get(row, colEmail, <<>>)),
     article_description |-> strip(get(row, colArticle, <<>>)),
     pfas_presence       |-> strip(get(row, colPresence, sUnknown)),
     kra_basis           |-> strip(get(row, colKra, <<>>)),
     evidence            |-> IF truthy(strip(get(row, colEvidence, <<>>)))
                             THEN strip(get(row, colEvidence, <<>>)) ELSE None,
     cbi_claim           |-> lower(strip(get(row, colCbi, <<>>))) \in sTruthySet]

-----------------------------------------------------------------------------
(* PFASDictionary.__init__ *)

PFASDictionary(entries) ==
    {lower(strip(e)) : e \in {x \in Range(entries) : truthy(strip(x))}}

-----------------------------------------------------------------------------
(* Substance Matcher *)

\* _apply_dictionary testing the description as written, without lower()
apply_dictionary_case_sensitive(decls, dict) ==
    [i \in 1..Len(decls) |->
        IF lower(decls[i].pfas_presence) = s_unknown
        THEN IF \E name \in dict : str_in(name, decls[i].article_description)
             THEN [decls[i] EXCEPT !.pfas_presence = sYes]
             ELSE decls[i]
        ELSE decls[i]]

\* _apply_dictionary that first turns a blank answer into "Unknown" and
\* promotes only what was already unknown
apply_dictionary_blank_first(decls, dict) ==
    [i \in 1..Len(decls) |->
        IF strip(decls[i].pfas_presence) = <<>>
        THEN [decls[i] EXCEPT !.pfas_presence = sUnknown]
        ELSE IF lower(decls[i].pfas_presence) = s_unknown
                /\ \E name \in dict : str_in(name, lower(decls[i].article_description))
             THEN [decls[i] EXCEPT !.pfas_presence = sYes]
             ELSE decls[i]]

\* pfas_frontend._apply_dictionary
apply_dictionary(decls, dict) ==
    [i \in 1..Len(decls) |->
        IF lower(decls[i].pfas_presence) = s_unknown
        THEN IF \E name \in dict : str_in(name, lower(decls[i].article_description))
             THEN [decls[i] EXCEPT !.pfas_presence = sYes]
             ELSE decls[i]
        ELSE decls[i]]

\* the loop of main without the `== "unknown"` guard
main_match_unguarded(decls, dict) ==
    [i \in 1..Len(decls) |->
        IF \E name \in dict : str_in(name, lower(decls[i].article_description))
        THEN [decls[i] EXCEPT !.pfas_presence = sYes]
        ELSE decls[i]]

\* the loop of main also recording the match in kra_basis
main_match_marks_basis(decls, dict) ==
    [i \in 1..Len(decls) |->
        IF lower(decls[i].pfas_presence) = s_unknown
        THEN IF \E name \in dict : str_in(name, lower(decls[i].article_description))
             THEN [decls[i] EXCEPT !.pfas_presence = sYes, !.kra_basis = sYes]
             ELSE decls[i]
        ELSE decls[i]]

\* the loop inlined in pfas_reporting.main
main_match(decls, dict) ==
    [i \in 1..Len(decls) |->
        IF lower(decls[i].pfas_presence) = s_unknown
        THEN IF \E name \in dict : str_in(name, lower(decls[i].article_description))
             THEN [decls[i] EXCEPT !.pfas_presence = sYes]
             ELSE decls[i]
        ELSE decls[i]]

-----------------------------------------------------------------------------
(* Report Aggregator: ReportGenerator *)

\* response_rate counting "Unknown" as not answered
response_rate_skips_unknown(decls) ==
    LET answered == Cardinality({i \in 1..Len(decls) :
                        /\ truthy(decls[i].pfas_presence)
                        /\ lower(decls[i].pfas_presence) # s_unknown})
        total    == IF Len(decls) # 0 THEN Len(decls) ELSE 1
    IN  [num |-> answered, den |-> total]

\* ReportGenerator.response_rate; the float answered / total is kept as the
\* pair of its numerator and denominator
response_rate(decls) ==
    LET answered == Cardinality({i \in 1..Len(decls) : truthy(decls[i].pfas_presence)})
        total    == IF Len(decls) # 0 THEN Len(decls) ELSE 1
    IN  [num |-> answered, den |-> total]

\* the mapping appended per declaration in ReportGenerator.generate
mapped_record(d) ==
    ("Reporting Entity Name" :> d.company_name)
    @@ ("Contact Name" :> d.contact_name)
    @@ ("Email" :> d.email)
    @@ ("Article Description" :> d.article_description)
    @@ ("PFAS Presence" :> d.pfas_presence)
    @@ ("Known or Reasonably Ascertainable Basis" :> d.kra_basis)
    @@ ("Evidence" :> d.evidence)
    @@ ("CBI Claim" :> d.cbi_claim)

\* ReportGenerator.__init__: self.declarations = list(declarations)
ReportGenerator(decls) == [i \in 1..Len(decls) |-> decls[i]]

\* generate leaving unanswered declarations out of the record list
generate_skips_unanswered(decls) ==
    LET kept == SelectSeq(decls, LAMBDA d : truthy(d.pfas_presence))
    IN  [summary      |-> [supplier_count |-> Len(decls),
                           response_rate  |-> response_rate(decls)],
         declarations |-> [i \in 1..Len(kept) |-> mapped_record(kept[i])]]

\* ReportGenerator.generate
generate(decls) ==
    [summary      |-> [supplier_count |-> Len(decls),
                       response_rate  |-> response_rate(decls)],
     declarations |-> [i \in 1..Len(decls) |-> mapped_record(decls[i])]]

-----------------------------------------------------------------------------
(* Inputs: what the tabular decoder and the dictionary source hand over *)

sAcme == <<"A", "c", "m", "e">>

sBoltPadded == <<" ", "B", "o", "l", "t", " ">>

sPfoaCoating == <<"c", "o", "n", "t", "a", "i", "n", "s", " ", "P", "F", "O", "A", " ", "c", "o", "a", "t", "i", "n", "g">>

sSteelBolt == <<"s", "t", "e", "e", "l", " ", "b", "o", "l", "t">>

PresenceCells ==
    {<<>>, <<" ">>, sUnknown, <<" ", "U", "N", "K", "N", "O", "W", "N", " ">>,
     sYes, <<"n", "o">>}

DescCells == {sPfoaCoating, sSteelBolt}

HeaderFull == <<colCompany, colContact, colEmail, colArticle, colPresence, colKra, colEvidence, colCbi>>

HeaderNoPresence == <<colCompany, colContact, colEmail, colArticle, colKra, colEvidence, colCbi>>

HeaderScenario == <<colCompany, colArticle, colPresence>>

Headers == {HeaderFull, HeaderNoPresence, HeaderScenario}

\* the cell of column c: p and d are the PFAS Presence and Article
\* Description cells, x selects one of two fillings of the other columns
Cell(c, p, d, x) ==
    CASE c = colPresence -> p
      [] c = colArticle  -> d
      [] c = colCompany  -> IF x = "A" THEN sAcme ELSE sBoltPadded
      [] c = colContact  -> IF x = "A" THEN <<"J", "o">> ELSE <<>>
      [] c = colEmail    -> IF x = "A" THEN <<"a", "@", "b", ".", "c">> ELSE <<>>
      [] c = colKra      -> IF x = "A" THEN <<"K", "R", "A">> ELSE <<>>
      [] c = colEvidence -> IF x = "A" THEN <<>> ELSE <<" ", "d", "o", "c", " ">>
      [] c = colCbi      -> IF x = "A" THEN <<"n", "o">> ELSE <<" ", "Y", "E", "S", " ">>

\* one row as csv.DictReader yields it for header h when the data row has n
\* cells: every header column is a key, the cells past the n-th are None
DictReaderRow(h, p, d, x, n) ==
    [c \in Range(h) |->
        IF (CHOOSE i \in 1..Len(h) : h[i] = c) > n THEN None ELSE Cell(c, p, d, x)]

RowPool(h) ==
    {DictReaderRow(h, p, d, "A", Len(h)) : p \in PresenceCells, d \in DescCells}
    \cup {DictReaderRow(h, sUnknown, <<>>, "B", Len(h))}
    \cup {DictReaderRow(h, <<>>, sPfoaCoating, "A", Len(h) - 1)}

SeqsUpTo(S, n) == UNION {[1..k -> S] : k \in 0..n}

DictLineChoices ==
    {<<<<"p", "f", "o", "a">>>>,
     <<<<" ", "P", "F", "O", "A", "\n">>, <<"\n">>, <<"p", "t", "f", "e", "\n">>>>,
     <<<<"z", "i", "n", "c">>>>,
     <<>>}

DictInputs ==
    {[supplied |-> FALSE, lines |-> <<>>]}
    \cup {[supplied |-> TRUE, lines |-> l] : l \in DictLineChoices}

NoReport == [summary |-> None, declarations |-> <<>>]

-----------------------------------------------------------------------------
(* The report-generation run: pfas_reporting.main and pfas_frontend.index *)

Init ==
    /\ pc = "start"
    /\ entry = "none"
    /\ \E h \in Headers : rows \in SeqsUpTo(RowPool(h), MaxRows)
    /\ dictInput \in DictInputs
    /\ dictionary = {}
    /\ declarations = <<>>
    /\ created = <<>>
    /\ runs = 0
    /\ report = NoReport

\* the list comprehension over the reader; an exception of from_row ends the run
Load(e) ==
    /\ pc = "start"
    /\ entry' = e
    /\ IF \E i \in 1..Len(rows) : from_row_raises(rows[i])
       THEN /\ pc' = "raised"
            /\ UNCHANGED <<declarations, created>>
       ELSE /\ pc' = "loaded"
            /\ declarations' = [i \in 1..Len(rows) |-> from_row(rows[i])]
            /\ created' = declarations'
    /\ UNCHANGED <<rows, dictInput, dictionary, runs, report>>

load_declarations == Load("cli")

load_declarations_from_csv == Load("web")

\* `if dict_path:` / `if dict_file:` and the construction of the dictionary
BuildDictionary(e) ==
    /\ pc = "loaded"
    /\ entry = e
    /\ dictInput.supplied
    /\ dictionary' = PFASDictionary(dictInput.lines)
    /\ pc' = "dict"
    /\ UNCHANGED <<entry, rows, dictInput, declarations, created, runs, report>>

main_dictionary == BuildDictionary("cli")

index_dictionary == BuildDictionary("web")

main_matcher ==
    /\ pc = "dict"
    /\ entry = "cli"
    /\ declarations' = main_match(declarations, dictionary)
    /\ runs' = runs + 1
    /\ pc' = "matched"
    /\ UNCHANGED <<entry, rows, dictInput, dictionary, created, report>>

index_apply_dictionary ==
    /\ pc = "dict"
    /\ entry = "web"
    /\ declarations' = apply_dictionary(declarations, dictionary)
    /\ runs' = runs + 1
    /\ pc' = "matched"
    /\ UNCHANGED <<entry, rows, dictInput, dictionary, created, report>>

\* ReportGenerator(declarations) followed by write / generate
Report(e) ==
    /\ entry = e
    /\ \/ pc = "matched"
       \/ pc = "loaded" /\ ~dictInput.supplied
    /\ report' = generate(ReportGenerator(declarations))
    /\ pc' = "done"
    /\ UNCHANGED <<entry, rows, dictInput, dictionary, declarations, created, runs>>

main_report == Report("cli")

index_report == Report("web")

Next ==
    \/ load_declarations
    \/ load_declarations_from_csv
    \/ main_dictionary
    \/ index_dictionary
    \/ main_matcher
    \/ index_apply_dictionary
    \/ main_report
    \/ index_report

Spec == Init /\ [][Next]_vars

-----------------------------------------------------------------------------
(* The components called directly: _apply_dictionary and ReportGenerator  *)
(* take any declaration sequence, also one not made by from_row            *)

Declaration(p, d) ==
    [company_name        |-> sAcme,
     contact_name        |-> <<>>,
     email               |-> <<>>,
     article_description |-> d,
     pfas_presence       |-> p,
     kra_basis           |-> <<>>,
     evidence            |-> None,
     cbi_claim           |-> FALSE]

DeclPool ==
    {Declaration(p, d) :
        p \in {<<>>, <<" ">>, sUnknown, <<"U", "N", "K", "N", "O", "W", "N">>,
               <<"u", "n", "k", "n", "o", "w", "n", " ">>, sYes, <<"N", "o">>},
        d \in {sPfoaCoating, sSteelBolt}}

InitCore ==
    /\ pc = "loaded"
    /\ entry = "call"
    /\ rows = <<>>
    /\ dictInput \in {[supplied |-> TRUE, lines |-> l] : l \in DictLineChoices}
    /\ dictionary = PFASDictionary(dictInput.lines)
    /\ declarations \in SeqsUpTo(DeclPool, MaxRows)
    /\ created = declarations
    /\ runs = 0
    /\ report = NoReport

call_apply_dictionary ==
    /\ pc \in {"loaded", "matched"}
    /\ runs < MaxRuns
    /\ declarations' = apply_dictionary(declarations, dictionary)
    /\ runs' = runs + 1
    /\ pc' = "matched"
    /\ UNCHANGED <<entry, rows, dictInput, dictionary, created, report>>

call_generate ==
    /\ pc \in {"loaded", "matched"}
    /\ report' = generate(ReportGenerator(declarations))
    /\ pc' = "done"
    /\ UNCHANGED <<entry, rows, dictInput, dictionary, declarations, created, runs>>

NextCore ==
    \/ call_apply_dictionary
    \/ call_generate

SpecCore == InitCore /\ [][NextCore]_vars

-----------------------------------------------------------------------------
(* Properties *)

Max(a, b) == IF a >= b THEN a ELSE b

\* the PFAS Presence cell of a row is absent or blank after trimming
PresenceAbsentOrBlank(row) ==
    \/ colPresence \notin DOMAIN row
    \/ strip(row[colPresence]) = <<>>

\* some identifier of dict is a substring of the lower-cased description
Matches(d, dict) == \E name \in dict : str_in(name, lower(d.article_description))

IsUnknown(d) == lower(d.pfas_presence) = s_unknown

Parsed == pc \notin {"start", "raised"}

\* C1: for every row, from_row(row).pfas_presence is "Unknown" whenever the
\* "PFAS Presence" column is absent from the row or blank after trimming.
C1_UnknownWhenAbsentOrBlank ==
    Parsed =>
        \A i \in 1..Len(rows) :
            PresenceAbsentOrBlank(rows[i]) => created[i].pfas_presence = sUnknown

\* C2: with a dictionary, a row whose "PFAS Presence" is the empty string and
\* whose lower-cased "Article Description" contains a dictionary identifier
\* ends as a mapped record with "PFAS Presence" = "Yes" and "Reporting Entity
\* Name" = the row's company name.
C2_BlankPromotedEndToEnd ==
    (pc = "done" /\ dictInput.supplied) =>
        \A i \in 1..Len(rows) :
            (/\ colPresence \in DOMAIN rows[i]
             /\ rows[i][colPresence] = <<>>
             /\ \E name \in PFASDictionary(dictInput.lines) :
                    str_in(name, lower(rows[i][colArticle])))
            => /\ report.declarations[i]["PFAS Presence"] = sYes
               /\ report.declarations[i]["Reporting Entity Name"] = strip(rows[i][colCompany])

\* C3: without a dictionary, a row whose "PFAS Presence" is the empty string
\* has "PFAS Presence" = "Unknown" in the generated report.
C3_BlankIsUnknownWithoutDictionary ==
    (pc = "done" /\ ~dictInput.supplied) =>
        \A i \in 1..Len(rows) :
            (colPresence \in DOMAIN rows[i] /\ rows[i][colPresence] = <<>>)
            => report.declarations[i]["PFAS Presence"] = sUnknown

\* C4: after the Matcher has run, every declaration that was "unknown"
\* (case-insensitively) is exactly "Yes" when some dictionary identifier is a
\* substring of its lower-cased description, and is as it was otherwise.
C4_UnknownPromotedOnMatch ==
    runs >= 1 =>
        \A i \in 1..Len(created) :
            IsUnknown(created[i]) =>
                IF Matches(created[i], dictionary)
                THEN declarations[i].pfas_presence = sYes
                ELSE declarations[i].pfas_presence = created[i].pfas_presence

C4_Witness ==
    /\ pc = "matched"
    /\ \E i \in 1..Len(created) :
        /\ IsUnknown(created[i])
        /\ Matches(created[i], dictionary)
        /\ declarations[i].pfas_presence = sYes
    /\ \E j \in 1..Len(created) :
        /\ IsUnknown(created[j])
        /\ ~Matches(created[j], dictionary)
        /\ declarations[j].pfas_presence = sUnknown

\* C5: the Matcher leaves pfas_presence unchanged on every declaration that
\* is not "unknown" case-insensitively ("Yes", "No", the empty string), also
\* when a dictionary identifier is a substring of its description.
C5_AnsweredUntouched ==
    runs >= 1 =>
        \A i \in 1..Len(created) :
            ~IsUnknown(created[i]) =>
                declarations[i].pfas_presence = created[i].pfas_presence

C5_Witness ==
    /\ pc = "matched"
    /\ \E i \in 1..Len(created) :
        /\ created[i].pfas_presence = <<>>
        /\ Matches(created[i], dictionary)
        /\ declarations[i].pfas_presence = <<>>
    /\ \E j \in 1..Len(created) :
        /\ lower(created[j].pfas_presence) = <<"n", "o">>
        /\ Matches(created[j], dictionary)
        /\ declarations[j] = created[j]

\* C6: the Matcher is idempotent: a run of the Matcher that follows another
\* run on the same dictionary changes no declaration, so a declaration
\* promoted to "Yes" by the first run stays as the first run left it.
C6_MatcherIdempotent ==
    [][(runs >= 1 /\ runs' = runs + 1) => declarations' = declarations]_vars

C6_Witness ==
    /\ runs = 2
    /\ \E i \in 1..Len(created) :
        /\ IsUnknown(created[i])
        /\ created[i].pfas_presence # sYes
        /\ declarations[i].pfas_presence = sYes

\* the number of declarations whose pfas_presence is non-empty after trimming
AnsweredAfterTrim(decls) ==
    Cardinality({i \in 1..Len(decls) : strip(decls[i].pfas_presence) # <<>>})

\* the number of declarations whose pfas_presence is non-empty as stored
AnsweredAsStored(decls) ==
    Cardinality({i \in 1..Len(decls) : decls[i].pfas_presence # <<>>})

\* C7 as claimed: response_rate is (declarations whose pfas_presence is
\* non-empty after trimming) / max(number of declarations, 1), so a
\* whitespace-only pfas_presence does not count as answered.
C7_RateCountsTrimmedAnswers ==
    pc = "done" =>
        /\ report.summary.response_rate.num = AnsweredAfterTrim(declarations)
        /\ report.summary.response_rate.den = Max(Len(declarations), 1)

\* C7: response_rate is (declarations whose stored pfas_presence is not the
\* empty string) / max(number of declarations, 1); it lies in [0,1], is 0 for
\* the empty sequence, and "Unknown" and a whitespace-only value both count.
C7_RateCountsStoredAnswers ==
    pc = "done" =>
        /\ report.summary.response_rate.num = AnsweredAsStored(declarations)
        /\ report.summary.response_rate.den = Max(Len(declarations), 1)
        /\ 0 <= report.summary.response_rate.num
        /\ report.summary.response_rate.num <= report.summary.response_rate.den
        /\ Len(declarations) = 0 => report.summary.response_rate.num = 0

C7_Witness ==
    /\ pc = "done"
    /\ Len(declarations) = 2
    /\ declarations[1].pfas_presence = <<" ">>
    /\ declarations[2].pfas_presence = sUnknown
    /\ report.summary.response_rate = [num |-> 2, den |-> 2]

\* C8: the Parser never fails on a malformed row: rows with absent columns
\* or cells without a value give a declaration with the defaults ("" for the
\* strings, "Unknown" for pfas_presence, None for evidence, False for
\* cbi_claim) and raise nothing.
C8_ParserNeverFails ==
    /\ pc # "raised"
    /\ Parsed =>
        \A i \in 1..Len(rows) :
            /\ PresenceAbsentOrBlank(rows[i]) => created[i].pfas_presence = sUnknown
            /\ colEvidence \notin DOMAIN rows[i] => created[i].evidence = None
            /\ colCbi \notin DOMAIN rows[i] => created[i].cbi_claim = FALSE
            /\ colKra \notin DOMAIN rows[i] => created[i].kra_basis = <<>>
            /\ colContact \notin DOMAIN rows[i] => created[i].contact_name = <<>>
            /\ colEmail \notin DOMAIN rows[i] => created[i].email = <<>>

ReportKeys ==
    {"Reporting Entity Name", "Contact Name", "Email", "Article Description",
     "PFAS Presence", "Known or Reasonably Ascertainable Basis", "Evidence", "CBI Claim"}

\* C9: the report's supplier_count is the length of the declaration sequence
\* at aggregation time, and its declarations list has that length with the
\* i-th record the field mapping of the i-th declaration, PFAS Presence being
\* the value after matching.
C9_ReportMirrorsDeclarations ==
    pc = "done" =>
        /\ report.summary.supplier_count = Len(declarations)
        /\ Len(declarations) = Len(rows)
        /\ Len(report.declarations) = Len(declarations)
        /\ \A i \in 1..Len(declarations) :
            /\ DOMAIN report.declarations[i] = ReportKeys
            /\ report.declarations[i]["Reporting Entity Name"] = declarations[i].company_name
            /\ report.declarations[i]["Contact Name"] = declarations[i].contact_name
            /\ report.declarations[i]["Email"] = declarations[i].email
            /\ report.declarations[i]["Article Description"] = declarations[i].article_description
            /\ report.declarations[i]["PFAS Presence"] = declarations[i].pfas_presence
            /\ report.declarations[i]["Known or Reasonably Ascertainable Basis"] = declarations[i].kra_basis
            /\ report.declarations[i]["Evidence"] = declarations[i].evidence
            /\ report.declarations[i]["CBI Claim"] = declarations[i].cbi_claim

C9_Witness ==
    /\ pc = "done"
    /\ runs = 1
    /\ Len(declarations) = 2
    /\ declarations[1].pfas_presence = <<>>
    /\ created[2].pfas_presence = sUnknown
    /\ declarations[2].pfas_presence = sYes
    /\ report.summary.supplier_count = 2
    /\ report.declarations[2]["PFAS Presence"] = sYes

\* C10: after creation only pfas_presence changes: every step keeps the
\* length and order of the sequence and all other fields of every
\* declaration; the Matcher changes nothing on a declaration that is not an
\* unknown one with a matching identifier and leaves the dictionary's entries
\* as they are; the Aggregator changes no declaration.
C10_OnlyPresenceChanges ==
    [][pc # "start" =>
        /\ Len(declarations') = Len(declarations)
        /\ \A i \in 1..Len(declarations) :
            [declarations'[i] EXCEPT !.pfas_presence = declarations[i].pfas_presence]
                = declarations[i]
        /\ pc = "dict" =>
            /\ dictionary' = dictionary
            /\ \A i \in 1..Len(declarations) :
                ~(IsUnknown(declarations[i]) /\ Matches(declarations[i], dictionary))
                    => declarations'[i] = declarations[i]
        /\ pc' = "done" => declarations' = declarations]_vars

C10_Witness ==
    /\ pc = "done"
    /\ runs = 1
    /\ Len(declarations) = 2
    /\ declarations[1].pfas_presence # created[1].pfas_presence
    /\ declarations[2] = created[2]
    /\ dictionary = PFASDictionary(dictInput.lines)
    /\ dictionary # {}

====
